---- MODULE Spec2Model ----
(***************************************************************************)
(* A model of package chops: the fan-in merger MakeFanIn (both versions    *)
(* present in the repository), the fan-out broadcaster MakeFanOut, and the *)
(* channel probes they are built on.  Channels are records                 *)
(* [buf, closed, cap]; producers and consumers are the caller's            *)
(* goroutines and act nondeterministically.                                *)
(***************************************************************************)
EXTENDS Integers, Sequences, FiniteSets, TLC

\* Bounds of the model.
MaxK == 2
MaxN == 2
MaxItems == 3
MaxCap == 1
MaxCallers == 2
MaxCalls == 2
MaxVals == 2
MaxRuns == 2
MaxWaiters == 1

VARIABLES
    kind,       \* which constructor built the session
    chs,        \* the input channels (MakeFanIn: chs; MakeFanOut: <<ch>>)
    out,        \* the output channels (MakeFanIn: <<out>>; MakeFanOut: out)
    stop,       \* the stop channel of MakeFanIn
    sent,       \* sent[i]: number of items the producer of input i has sent
    cases,      \* cases[i]: TRUE while cases[i].Chan is a valid channel
    remaining,  \* the live-input counter of the K >= 2 path
    pc,         \* the position of the background goroutine
    recv,       \* the item the goroutine holds (v, recv, x), <<>> if none
    idx,        \* MakeFanOut: index of the range loop over out
    received,   \* received[j]: the items the consumer took from out[j]
    sawClosed,  \* sawClosed[j]: the consumer's receive on out[j] reported closed
    panic,      \* the runtime panic raised in the goroutine, "" if none
    q,          \* the channel the probes and retry loops are called on
    sendq,      \* values of the goroutines blocked in `q <- v`
    recvq,      \* number of goroutines blocked in `<-q`
    taken,      \* the values other goroutines received from q
    call,       \* call[c]: the call goroutine c is in, if any
    hist,       \* the calls that returned, in order, with their results
    closedBy,   \* who closed q: 0 nobody, -1 close(q), k > 0 the call hist[k]
    nvals       \* number of values sent on q so far (values are 1, 2, ...)

probeVars == <<q, sendq, recvq, taken, call, hist, closedBy, nvals>>

vars == <<kind, chs, out, stop, sent, cases, remaining, pc, recv, idx,
          received, sawClosed, panic, probeVars>>

closeChMsg == "send on closed channel"
doubleCloseMsg == "close of closed channel"

----------------------------------------------------------------------------
\* Channels of the Go runtime.

MakeChan(c) == [buf |-> <<>>, closed |-> FALSE, cap |-> c]

\* close(ch) on an open channel
CloseChan(c) == [c EXCEPT !.closed = TRUE]

\* ch <- x completing into the buffer
PushChan(c, x) == [c EXCEPT !.buf = Append(@, x)]

\* <-ch taking the oldest buffered item
PopChan(c) == [c EXCEPT !.buf = Tail(@)]

\* the closed flag alone, buffered items overlooked
RecvClosed_Early(c) == c.closed

\* a receive returns (zero, false): closed and drained
RecvClosed(c) == c.closed /\ c.buf = <<>>

\* a send can complete into the buffer
SendRoom(c) == ~c.closed /\ Len(c.buf) < c.cap

RECURSIVE SumSeq(_)
SumSeq(s) == IF s = <<>> THEN 0 ELSE Head(s) + SumSeq(Tail(s))

\* the item the producer of input i sends next
NextItem(i) == <<i, sent[i] + 1>>

\* the producer of an unbuffered input i stands ready to hand an item over
ProducerReady(i) ==
    /\ chs[i].cap = 0
    /\ ~chs[i].closed
    /\ SumSeq(sent) < MaxItems

\* a receive from input i yields an item (ok = true)
RecvOk(i) == chs[i].buf # <<>> \/ ProducerReady(i)

\* the effect of receiving an item from input i into recv
RecvItem(i) ==
    IF chs[i].buf # <<>>
    THEN /\ recv' = Head(chs[i].buf)
         /\ chs' = [chs EXCEPT ![i] = PopChan(@)]
         /\ UNCHANGED sent
    ELSE /\ recv' = NextItem(i)
         /\ sent' = [sent EXCEPT ![i] = @ + 1]
         /\ UNCHANGED chs

----------------------------------------------------------------------------
\* The non-blocking probes (Status: Ok, Closed, Blocked).

\* the Status of TryRecv(ch) / of RecvOr's v.TryRecv() on a buffered channel
TryRecv(c) ==
    IF c.buf # <<>> THEN "Ok"
    ELSE IF c.closed THEN "Closed"
    ELSE "Blocked"

\* the Status of TrySend(ch, x) on a buffered channel
TrySend(c) ==
    IF c.closed THEN "Closed"
    ELSE IF Len(c.buf) < c.cap THEN "Ok"
    ELSE "Blocked"

----------------------------------------------------------------------------
\* The constructors: the state each one leaves behind.

\* no special case for an empty input list
MakeFanIn_NoZero(outCap, k) ==
    IF k = 1
    THEN [out |-> <<MakeChan(outCap)>>, stop |-> MakeChan(0),
          cases |-> <<>>, remaining |-> 0, pc |-> "select1"]
    ELSE [out |-> <<MakeChan(outCap)>>, stop |-> MakeChan(1),
          cases |-> [i \in 1..(k + 1) |-> TRUE], remaining |-> k,
          pc |-> "select"]

\* the live-input counter starts at len(cases), the stop case counted
MakeFanIn_CountStop(outCap, k) ==
    IF k = 0
    THEN [out |-> <<CloseChan(MakeChan(0))>>, stop |-> MakeChan(0),
          cases |-> <<>>, remaining |-> 0, pc |-> "none"]
    ELSE IF k = 1
    THEN [out |-> <<MakeChan(outCap)>>, stop |-> MakeChan(0),
          cases |-> <<>>, remaining |-> 0, pc |-> "select1"]
    ELSE [out |-> <<MakeChan(outCap)>>, stop |-> MakeChan(1),
          cases |-> [i \in 1..(k + 1) |-> TRUE], remaining |-> k + 1,
          pc |-> "select"]

\* MakeFanIn of part_001 (the current version)
MakeFanIn(outCap, k) ==
    IF k = 0
    THEN [out |-> <<CloseChan(MakeChan(0))>>, stop |-> MakeChan(0),
          cases |-> <<>>, remaining |-> 0, pc |-> "none"]
    ELSE IF k = 1
    THEN [out |-> <<MakeChan(outCap)>>, stop |-> MakeChan(0),
          cases |-> <<>>, remaining |-> 0, pc |-> "select1"]
    ELSE [out |-> <<MakeChan(outCap)>>, stop |-> MakeChan(1),
          cases |-> [i \in 1..(k + 1) |-> TRUE], remaining |-> k,
          pc |-> "select"]

\* MakeFanIn of fan.go (the version built on RecvOr)
MakeFanInOld(outCap, k) ==
    IF k = 0
    THEN [out |-> <<CloseChan(MakeChan(0))>>, stop |-> MakeChan(0),
          cases |-> <<>>, remaining |-> 0, pc |-> "none"]
    ELSE IF k = 1
    THEN [out |-> <<MakeChan(outCap)>>, stop |-> MakeChan(0),
          cases |-> <<>>, remaining |-> 0, pc |-> "oselect1"]
    ELSE [out |-> <<MakeChan(outCap)>>, stop |-> MakeChan(1),
          cases |-> [i \in 1..k |-> TRUE], remaining |-> k,
          pc |-> "probe"]

\* MakeFanOut
MakeFanOut(n, outCap) ==
    IF n = 0
    THEN [out |-> <<>>, stop |-> MakeChan(0),
          cases |-> <<>>, remaining |-> 0, pc |-> "none"]
    ELSE IF n = 1
    THEN [out |-> <<MakeChan(outCap)>>, stop |-> MakeChan(0),
          cases |-> <<>>, remaining |-> 0, pc |-> "recv1"]
    ELSE [out |-> [j \in 1..n |-> MakeChan(outCap)], stop |-> MakeChan(0),
          cases |-> <<>>, remaining |-> 0, pc |-> "recv"]

\* the state after construction: k fresh inputs of capacity inCap and session s
Start(kd, k, inCap, s) ==
    /\ kind = kd
    /\ chs = [i \in 1..k |-> MakeChan(inCap)]
    /\ sent = [i \in 1..k |-> 0]
    /\ out = s.out
    /\ stop = s.stop
    /\ cases = s.cases
    /\ remaining = s.remaining
    /\ pc = s.pc
    /\ recv = <<>>
    /\ idx = 0
    /\ received = [j \in 1..Len(s.out) |-> <<>>]
    /\ sawClosed = [j \in 1..Len(s.out) |-> FALSE]
    /\ panic = ""
    /\ q = MakeChan(0)
    /\ sendq = <<>>
    /\ recvq = 0
    /\ taken = <<>>
    /\ call = <<>>
    /\ hist = <<>>
    /\ closedBy = 0
    /\ nvals = 0

InitFanIn ==
    \E k \in 0..MaxK, inCap \in 0..MaxCap, outCap \in 0..MaxCap :
        Start("FanIn", k, inCap, MakeFanIn(outCap, k))

InitFanInOld ==
    \E k \in 0..MaxK, inCap \in 0..MaxCap, outCap \in 0..MaxCap :
        Start("FanInOld", k, inCap, MakeFanInOld(outCap, k))

InitFanOut ==
    \E n \in 0..MaxN, inCap \in 0..MaxCap, outCap \in 0..MaxCap :
        Start("FanOut", 1, inCap, MakeFanOut(n, outCap))

Init == InitFanIn \/ InitFanInOld \/ InitFanOut

K == Len(chs)

----------------------------------------------------------------------------
\* The goroutine's blocking send `out <- v`.

SendPcs == {"send1", "send", "osend1", "osend", "bsend1", "bsend"}

\* every send of the range loop goes to the last output
Target_Last == IF pc = "bsend" THEN Len(out) ELSE 1

\* the output the goroutine is sending to
Target == IF pc = "bsend" THEN idx ELSE 1

\* the range loop over out is left after its first send
AfterSend_Break ==
    CASE pc = "send1" -> "select1"
      [] pc = "send" -> "select"
      [] pc = "osend1" -> "oselect1"
      [] pc = "osend" -> "probe"
      [] pc = "bsend1" -> "recv1"
      [] pc = "bsend" -> "recv"

\* where the goroutine continues once the send at pc has completed
AfterSend ==
    CASE pc = "send1" -> "select1"
      [] pc = "send" -> "select"
      [] pc = "osend1" -> "oselect1"
      [] pc = "osend" -> "probe"
      [] pc = "bsend1" -> "recv1"
      [] pc = "bsend" -> IF idx < Len(out) THEN "bsend" ELSE "recv"

\* the goroutine's own variables once the send at pc has completed
Sent ==
    /\ pc' = AfterSend
    /\ idx' = IF pc = "bsend" /\ idx < Len(out) THEN idx + 1 ELSE 0
    /\ recv' = IF pc = "bsend" /\ idx < Len(out) THEN recv ELSE <<>>

\* a send that gives up on a full buffer and drops the item
SendStep_Drop(p) ==
    /\ pc = p
    /\ ~out[Target].closed
    /\ out' = IF SendRoom(out[Target])
              THEN [out EXCEPT ![Target] = PushChan(@, recv)]
              ELSE out
    /\ Sent
    /\ UNCHANGED <<probeVars, kind, chs, stop, sent, cases, remaining, received,
                   sawClosed, panic>>

\* out <- v at position p: panics on a closed channel, blocks while full
SendStep(p) ==
    /\ pc = p
    /\ IF out[Target].closed
       THEN /\ panic' = closeChMsg
            /\ pc' = "panic"
            /\ UNCHANGED <<out, idx, recv>>
       ELSE /\ SendRoom(out[Target])
            /\ out' = [out EXCEPT ![Target] = PushChan(@, recv)]
            /\ Sent
            /\ UNCHANGED panic
    /\ UNCHANGED <<probeVars, kind, chs, stop, sent, cases, remaining, received, sawClosed>>

\* close(out[j]): panics on a closed channel
CloseOut(j, nextpc) ==
    IF out[j].closed
    THEN /\ panic' = doubleCloseMsg
         /\ pc' = "panic"
         /\ UNCHANGED out
    ELSE /\ out' = [out EXCEPT ![j] = CloseChan(@)]
         /\ pc' = nextpc
         /\ UNCHANGED panic

----------------------------------------------------------------------------
\* The caller's goroutines.

\* a producer sends on a buffered input: ch <- val
Send(i) ==
    /\ SumSeq(sent) < MaxItems
    /\ SendRoom(chs[i])
    /\ chs' = [chs EXCEPT ![i] = PushChan(@, NextItem(i))]
    /\ sent' = [sent EXCEPT ![i] = @ + 1]
    /\ UNCHANGED <<probeVars, kind, out, stop, cases, remaining, pc, recv, idx,
                   received, sawClosed, panic>>

\* the producer closes its input: close(ch)
CloseInput(i) ==
    /\ ~chs[i].closed
    /\ chs' = [chs EXCEPT ![i] = CloseChan(@)]
    /\ UNCHANGED <<probeVars, kind, out, stop, sent, cases, remaining, pc, recv, idx,
                   received, sawClosed, panic>>

\* the caller cancels: close(stop)
CloseStop ==
    /\ kind # "FanOut"
    /\ ~stop.closed
    /\ stop' = CloseChan(stop)
    /\ UNCHANGED <<probeVars, kind, chs, out, sent, cases, remaining, pc, recv, idx,
                   received, sawClosed, panic>>

\* the consumer receives from out[j]: v, ok := <-out
Recv(j) ==
    \/ /\ out[j].buf # <<>>
       /\ received' = [received EXCEPT ![j] = Append(@, Head(out[j].buf))]
       /\ out' = [out EXCEPT ![j] = PopChan(@)]
       /\ UNCHANGED <<probeVars, kind, chs, stop, sent, cases, remaining, pc, recv, idx,
                      sawClosed, panic>>
    \/ /\ RecvClosed(out[j])
       /\ ~sawClosed[j]
       /\ sawClosed' = [sawClosed EXCEPT ![j] = TRUE]
       /\ UNCHANGED <<probeVars, kind, chs, out, stop, sent, cases, remaining, pc, recv,
                      idx, received, panic>>
    \/ /\ pc \in SendPcs
       /\ Target = j
       /\ out[j].cap = 0
       /\ ~out[j].closed
       /\ received' = [received EXCEPT ![j] = Append(@, recv)]
       /\ Sent
       /\ UNCHANGED <<probeVars, kind, chs, out, stop, sent, cases, remaining,
                      sawClosed, panic>>

----------------------------------------------------------------------------
\* MakeFanIn, part_001: the aggregating goroutine.

\* a close without the return: the loop goes on
Return_NoExit == CloseOut(1, pc)

\* return with the deferred close(out)
Return == CloseOut(1, "done")

\* the stop case never fires
StopReady_Never == FALSE

\* the stop case of the select is ready: stop was closed
StopReady == stop.closed

\* off by one: the counter must fall to zero
LastOne_Zero == remaining = 0

\* the first input to close ends the session
LastOne_Any == remaining >= 1

\* `remaining == 1`: the input that reported closed is the last live one
LastOne == remaining = 1

\* the select without its stop case
FanIn1SelectAt_NoStop(p, ps) ==
    /\ pc = p
    /\ \/ /\ RecvOk(1)
          /\ RecvItem(1)
          /\ pc' = ps
          /\ UNCHANGED <<out, panic>>
       \/ /\ RecvClosed(chs[1])
          /\ Return
          /\ UNCHANGED <<chs, sent, recv>>
    /\ UNCHANGED <<probeVars, kind, stop, cases, remaining, idx, received, sawClosed>>

\* K = 1: select { case <-stop: ...; case v, ok := <-ch: ... }, with the
\* goroutine at the select when pc = p and at `out <- v` when pc = ps
FanIn1SelectAt(p, ps) ==
    /\ pc = p
    /\ \/ /\ StopReady
          /\ Return
          /\ UNCHANGED <<chs, sent, recv>>
       \/ /\ RecvOk(1)
          /\ RecvItem(1)
          /\ pc' = ps
          /\ UNCHANGED <<out, panic>>
       \/ /\ RecvClosed(chs[1])
          /\ Return
          /\ UNCHANGED <<chs, sent, recv>>
    /\ UNCHANGED <<probeVars, kind, stop, cases, remaining, idx, received, sawClosed>>

\* K = 1: the select of the fast path
FanIn1Select == FanIn1SelectAt("select1", "send1")

\* K = 1: out <- v
FanIn1Send == SendStep("send1")

\* K >= 2: chosen, recv, ok := reflect.Select(cases) and the branch taken
FanInSelect ==
    /\ pc = "select"
    /\ \/ /\ cases[K + 1]
          /\ StopReady
          /\ Return
          /\ UNCHANGED <<chs, sent, recv, cases, remaining>>
       \/ \E chosen \in 1..K :
            /\ cases[chosen]
            /\ RecvOk(chosen)
            /\ RecvItem(chosen)
            /\ pc' = "send"
            /\ UNCHANGED <<out, panic, cases, remaining>>
       \/ \E chosen \in 1..K :
            /\ cases[chosen]
            /\ RecvClosed(chs[chosen])
            /\ IF LastOne
               THEN /\ Return
                    /\ UNCHANGED <<cases, remaining>>
               ELSE /\ cases' = [cases EXCEPT ![chosen] = FALSE]
                    /\ remaining' = remaining - 1
                    /\ UNCHANGED <<out, pc, panic>>
            /\ UNCHANGED <<chs, sent, recv>>
    /\ UNCHANGED <<probeVars, kind, stop, idx, received, sawClosed>>

\* the send is a select with a stop case: a cancelled send gives the item up
FanInSend_Cancel ==
    \/ SendStep("send")
    \/ /\ pc = "send"
       /\ StopReady
       /\ Return
       /\ recv' = <<>>
       /\ UNCHANGED <<probeVars, kind, chs, stop, sent, cases, remaining, idx,
                      received, sawClosed>>

\* K >= 2: out <- recv.Interface()
FanInSend == SendStep("send")

FanInTask == FanIn1Select \/ FanIn1Send \/ FanInSelect \/ FanInSend

NextFanIn ==
    \/ \E i \in 1..K : Send(i)
    \/ \E i \in 1..K : CloseInput(i)
    \/ CloseStop
    \/ \E j \in 1..Len(out) : Recv(j)
    \/ FanIn1Select
    \/ FanIn1Send
    \/ FanInSelect
    \/ FanInSend

SpecFanIn == InitFanIn /\ [][NextFanIn]_vars

\* the code after the K = 1 branch (the general path), run on k inputs
MakeFanInGeneral(outCap, k) ==
    [out |-> <<MakeChan(outCap)>>, stop |-> MakeChan(1),
     cases |-> [i \in 1..(k + 1) |-> TRUE], remaining |-> k, pc |-> "select"]

\* one input handed to the general path
InitFanInOne ==
    \E inCap \in 0..MaxCap, outCap \in 0..MaxCap :
        Start("FanInGeneral", 1, inCap, MakeFanInGeneral(outCap, 1))

\* the fast path's select standing where the general path's select stands
FastSelect == FanIn1SelectAt("select", "send")

\* one input, one session: the steps of the general path and the steps the
\* fast path would take from the same states (the sends are the same code)
NextFanInOne ==
    \/ Send(1)
    \/ CloseInput(1)
    \/ CloseStop
    \/ Recv(1)
    \/ FanInSelect
    \/ FastSelect
    \/ FanInSend

SpecFanInOne == InitFanInOne /\ [][NextFanInOne]_vars

----------------------------------------------------------------------------
\* MakeFanIn, fan.go: the aggregating goroutine.

\* K = 1: the select, then close(out); return after a break
OldFanIn1Select ==
    /\ pc = "oselect1"
    /\ \/ /\ stop.closed
          /\ CloseOut(1, "done")
          /\ UNCHANGED <<chs, sent, recv>>
       \/ /\ RecvOk(1)
          /\ RecvItem(1)
          /\ pc' = "osend1"
          /\ UNCHANGED <<out, panic>>
       \/ /\ RecvClosed(chs[1])
          /\ CloseOut(1, "done")
          /\ UNCHANGED <<chs, sent, recv>>
    /\ UNCHANGED <<probeVars, kind, stop, cases, remaining, idx, received, sawClosed>>

\* K = 1: out <- v; continue
OldFanIn1Send == SendStep("osend1")

\* K >= 2: one turn of RecvOr(stop, f): x, ok := v.TryRecv(), then f() or return
OldProbe ==
    /\ pc = "probe"
    /\ IF TryRecv(stop) = "Blocked"
       THEN /\ pc' = "oselect"
            /\ UNCHANGED stop
       ELSE /\ pc' = "done"
            /\ stop' = IF TryRecv(stop) = "Ok" THEN PopChan(stop) ELSE stop
    /\ UNCHANGED <<probeVars, kind, chs, out, sent, cases, remaining, recv, idx,
                   received, sawClosed, panic>>

\* close(out) without stopping RecvOr
LastOneOut_NoStop ==
    /\ UNCHANGED stop
    /\ CloseOut(1, "probe")

\* the branch of f taken when the last input reports closed
LastOneOut ==
    /\ stop' = IF TrySend(stop) = "Ok" THEN PushChan(stop, <<>>) ELSE stop
    /\ CloseOut(1, "probe")

\* K >= 2: f: chosen, recv, ok := reflect.Select(cases) and the branch taken
OldSelect ==
    /\ pc = "oselect"
    /\ \/ \E chosen \in 1..K :
            /\ cases[chosen]
            /\ RecvOk(chosen)
            /\ RecvItem(chosen)
            /\ pc' = "osend"
            /\ UNCHANGED <<out, stop, panic, cases, remaining>>
       \/ \E chosen \in 1..K :
            /\ cases[chosen]
            /\ RecvClosed(chs[chosen])
            /\ IF remaining = 1
               THEN /\ LastOneOut
                    /\ UNCHANGED <<cases, remaining>>
               ELSE /\ cases' = [cases EXCEPT ![chosen] = FALSE]
                    /\ remaining' = remaining - 1
                    /\ pc' = "probe"
                    /\ UNCHANGED <<out, stop, panic>>
            /\ UNCHANGED <<chs, sent, recv>>
    /\ UNCHANGED <<probeVars, kind, idx, received, sawClosed>>

\* K >= 2: f: out <- recv.Interface()
OldSend == SendStep("osend")

FanInOldTask ==
    OldFanIn1Select \/ OldFanIn1Send \/ OldProbe \/ OldSelect \/ OldSend

NextFanInOld ==
    \/ \E i \in 1..K : Send(i)
    \/ \E i \in 1..K : CloseInput(i)
    \/ CloseStop
    \/ \E j \in 1..Len(out) : Recv(j)
    \/ OldFanIn1Select
    \/ OldFanIn1Send
    \/ OldProbe
    \/ OldSelect
    \/ OldSend

SpecFanInOld == InitFanInOld /\ [][NextFanInOld]_vars

----------------------------------------------------------------------------
\* MakeFanOut: the broadcasting goroutine.

\* n = 1: x, ok := v.Recv(); close(out) and return if !ok
FanOut1Recv ==
    /\ pc = "recv1"
    /\ \/ /\ RecvOk(1)
          /\ RecvItem(1)
          /\ pc' = "bsend1"
          /\ UNCHANGED <<out, panic>>
       \/ /\ RecvClosed(chs[1])
          /\ CloseOut(1, "done")
          /\ UNCHANGED <<chs, sent, recv>>
    /\ UNCHANGED <<probeVars, kind, stop, cases, remaining, idx, received, sawClosed>>

\* n = 1: out <- x.Interface()
FanOut1Send == SendStep("bsend1")

\* n >= 2: x, ok := v.Recv() and the loop it enters
FanOutRecv ==
    /\ pc = "recv"
    /\ \/ /\ RecvOk(1)
          /\ RecvItem(1)
          /\ pc' = "bsend"
       \/ /\ RecvClosed(chs[1])
          /\ pc' = "closing"
          /\ UNCHANGED <<chs, sent, recv>>
    /\ idx' = 1
    /\ UNCHANGED <<probeVars, kind, out, stop, cases, remaining, received, sawClosed,
                   panic>>

\* n >= 2: for _, v := range out { v <- x.Interface() }, one send
FanOutSend == SendStep("bsend")

\* the return comes inside the closing loop: one output is closed
FanOutClose_One ==
    /\ pc = "closing"
    /\ CloseOut(idx, "done")
    /\ idx' = 0
    /\ UNCHANGED <<probeVars, kind, chs, stop, sent, cases, remaining, recv, received,
                   sawClosed>>

\* n >= 2: for _, v := range out { close(v) }, one close; return after the last
FanOutClose ==
    /\ pc = "closing"
    /\ CloseOut(idx, IF idx < Len(out) THEN "closing" ELSE "done")
    /\ idx' = IF out[idx].closed THEN idx
              ELSE IF idx < Len(out) THEN idx + 1 ELSE 0
    /\ UNCHANGED <<probeVars, kind, chs, stop, sent, cases, remaining, recv, received,
                   sawClosed>>

FanOutTask ==
    FanOut1Recv \/ FanOut1Send \/ FanOutRecv \/ FanOutSend \/ FanOutClose

NextFanOut ==
    \/ \E i \in 1..K : Send(i)
    \/ \E i \in 1..K : CloseInput(i)
    \/ \E j \in 1..Len(out) : Recv(j)
    \/ FanOut1Recv
    \/ FanOut1Send
    \/ FanOutRecv
    \/ FanOutSend
    \/ FanOutClose

SpecFanOut == InitFanOut /\ [][NextFanOut]_vars

----------------------------------------------------------------------------
\* Every session kind together.

Task == FanInTask \/ FanInOldTask \/ FanOutTask

Next ==
    \/ \E i \in 1..K : Send(i)
    \/ \E i \in 1..K : CloseInput(i)
    \/ CloseStop
    \/ \E j \in 1..Len(out) : Recv(j)
    \/ FanIn1Select
    \/ FanIn1Send
    \/ FanInSelect
    \/ FanInSend
    \/ OldFanIn1Select
    \/ OldFanIn1Send
    \/ OldProbe
    \/ OldSelect
    \/ OldSend
    \/ FanOut1Recv
    \/ FanOut1Send
    \/ FanOutRecv
    \/ FanOutSend
    \/ FanOutClose

Spec == Init /\ [][Next]_vars

----------------------------------------------------------------------------
\* Properties.

FanInKinds == {"FanIn", "FanInOld"}

\* every item ever placed on output j, in order: those the consumer took
\* followed by those still buffered
Placed(j) == received[j] \o out[j].buf

\* the items of input i within s, in order
OfInput(s, i) == SelectSeq(s, LAMBDA x : x[1] = i)

IsPrefix(s, t) == Len(s) <= Len(t) /\ SubSeq(t, 1, Len(s)) = s

\* the goroutine has exited, or none was started
Exited == pc \in {"done", "none"}

\* C1: FanIn, any K >= 0, both versions: the output is never closed twice and
\* never sent on after its close (neither runtime panic is raised), and once
\* the output is closed the goroutine is not at a send.
C1_CloseOnce ==
    kind \in FanInKinds =>
        /\ panic = ""
        /\ pc # "panic"
        /\ out[1].closed => pc \notin SendPcs

\* stop was closed and the last live input reported closed, K = 2
C1_Witness ==
    /\ kind \in FanInKinds
    /\ K = 2
    /\ stop.closed
    /\ \A i \in 1..K : RecvClosed(chs[i])
    /\ remaining = 1
    /\ out[1].closed
    /\ pc = "done"

\* C2: FanIn without cancellation: while stop is open, a closed output means
\* every input is closed and drained, the goroutine holds no item, and every
\* item sent on an input has been placed on the output.
C2_NoEarlyClose ==
    (kind \in FanInKinds /\ ~stop.closed /\ out[1].closed) =>
        /\ \A i \in 1..K : RecvClosed(chs[i])
        /\ recv = <<>>
        /\ \A i \in 1..K : Len(OfInput(Placed(1), i)) = sent[i]

\* two inputs, both delivered, three items merged, output closed, no cancel
C2_Witness ==
    /\ kind \in FanInKinds
    /\ K = 2
    /\ ~stop.closed
    /\ out[1].closed
    /\ \A i \in 1..K : sent[i] >= 1
    /\ Len(Placed(1)) = 3

\* C3: FanIn ordering: the items of input i on the output are the first items
\* sent on input i, in the order sent.
C3_PerInputOrder ==
    kind \in FanInKinds =>
        \A i \in 1..K :
            LET s == OfInput(Placed(1), i)
            IN  /\ Len(s) <= sent[i]
                /\ \A n \in 1..Len(s) : s[n] = <<i, n>>

\* input 1's two items on the output with an item of input 2 between them
C3_Witness ==
    /\ kind = "FanIn"
    /\ Placed(1) = << <<1, 1>>, <<2, 1>>, <<1, 2>> >>

\* C8: FanIn with K = 0: the output is closed and empty from construction on,
\* no goroutine exists, nothing is ever received, also after stop is closed.
C8_ZeroInputs ==
    (kind \in FanInKinds /\ K = 0) =>
        /\ out[1] = CloseChan(MakeChan(0))
        /\ pc = "none"
        /\ received[1] = <<>>

\* K = 0, stop closed later, the consumer saw the output closed
C8_Witness ==
    /\ kind = "FanIn"
    /\ K = 0
    /\ stop.closed
    /\ sawClosed[1]

AllSawClosed == Len(out) >= 1 /\ \A j \in 1..Len(out) : sawClosed[j]

\* C10: leak-freedom: once every output has been observed closed, the
\* goroutine has exited, or stands at RecvOr's probe of stop with the probe
\* about to succeed (its one remaining step, which does not block); it is
\* at no select, receive or send.
C10_NoLeak ==
    AllSawClosed =>
        \/ Exited
        \/ pc = "probe" /\ TryRecv(stop) # "Blocked"

\* the consumer saw the close while the goroutine had its last step to take
C10_Witness ==
    /\ kind = "FanInOld"
    /\ AllSawClosed
    /\ pc = "probe"

----------------------------------------------------------------------------
\* Scheduling.  The Go scheduler runs a goroutine that can take a step; a
\* consumer that keeps receiving takes a receive that stays possible.

Consume == \E j \in 1..Len(out) : Recv(j)

\* the goroutine is scheduled; producers, canceller and consumer are free
FairTaskFanIn == SpecFanIn /\ WF_vars(FanInTask)

\* the goroutine is scheduled and the consumer keeps receiving
FairSpecFanIn == SpecFanIn /\ WF_vars(FanInTask) /\ WF_vars(Consume)

\* fan.go: the goroutine is scheduled and the consumer keeps receiving
FairSpecFanInOld ==
    SpecFanInOld /\ WF_vars(FanInOldTask) /\ WF_vars(Consume)

\* the output is closed and the goroutine has exited
Terminated == out[1].closed /\ pc = "done"

\* stop is closed and every input is open and idle
IdleCancel ==
    /\ K >= 1
    /\ stop.closed
    /\ \A i \in 1..K : ~chs[i].closed /\ chs[i].buf = <<>>

C5_OldCancel ==
    [](K >= 2 /\ stop.closed => <>Terminated)

\* C6: FanIn never blocks indefinitely once cancellation fires: whatever
\* producers and consumer do, stop closed leads to the goroutine exited and
\* the output closed.
C6_CancelAlways ==
    [](K >= 1 /\ stop.closed => <>Terminated)

\* every sent item has been received from the output
AllReceived ==
    /\ out[1].buf = <<>>
    /\ \A i \in 1..K : Len(OfInput(received[1], i)) = sent[i]

\* C7: FanIn natural termination, K >= 1: with every input closed, stop never
\* closed and the consumer receiving, eventually every sent item has been
\* received, the output is closed and the goroutine has exited.
C7_NaturalTermination ==
    [](K >= 1 /\ (\A i \in 1..K : chs[i].closed) =>
          <>(stop.closed \/ (Terminated /\ AllReceived /\ sawClosed[1])))

\* both inputs delivered and closed, no cancel, everything received
C7_Witness ==
    /\ K = 2
    /\ ~stop.closed
    /\ \A i \in 1..K : chs[i].closed /\ sent[i] >= 1
    /\ Terminated
    /\ AllReceived
    /\ sawClosed[1]

----------------------------------------------------------------------------
\* MakeFanOut.

N == Len(out)

\* the first m items sent on the input of MakeFanOut, in order
InputPrefix(m) == [n \in 1..m |-> <<1, n>>]

\* the number of items the broadcaster has taken from the input
Taken == sent[1] - Len(chs[1].buf)

\* C11: FanOut delivery, N >= 1: what each output was given is a prefix of
\* the input sequence, in order, nothing skipped or duplicated; a closed
\* output was given the complete input sequence.
C11_FanOutDelivery ==
    kind = "FanOut" =>
        \A j \in 1..N :
            /\ Len(Placed(j)) <= sent[1]
            /\ Placed(j) = InputPrefix(Len(Placed(j)))
            /\ out[j].closed => Placed(j) = InputPrefix(sent[1])

\* two outputs, both given two items and closed
C11_Witness ==
    /\ kind = "FanOut"
    /\ N = 2
    /\ sent[1] >= 2
    /\ \A j \in 1..N : out[j].closed /\ Placed(j) = InputPrefix(sent[1])

\* C12: FanOut per-item barrier, N >= 2: outputs accept each item in index
\* order, any two outputs differ by at most one accepted item, the
\* broadcaster holds at most one item taken from the input, and it is back
\* at the receive only when every output has accepted every item taken.
C12_Barrier ==
    (kind = "FanOut" /\ N >= 2) =>
        /\ \A i, j \in 1..N :
              i < j => /\ Len(Placed(i)) >= Len(Placed(j))
                       /\ Len(Placed(i)) - Len(Placed(j)) <= 1
        /\ \A j \in 1..N : Taken - Len(Placed(j)) \in {0, 1}
        /\ (Taken - Len(Placed(N)) = 1) <=> (pc = "bsend")
        /\ pc = "bsend" => recv = <<1, Taken>>
        /\ pc \in {"recv", "closing", "done"} =>
              \A j \in 1..N : Len(Placed(j)) = Taken

\* the first output has accepted the second item, the second has not yet
C12_Witness ==
    /\ kind = "FanOut"
    /\ N = 2
    /\ Len(Placed(1)) = 2
    /\ Len(Placed(2)) = 1
    /\ pc = "bsend"

\* C13: FanOut closing: no output is closed twice or sent on after its
\* close; an output is closed only once the input is closed and drained and
\* every item sent on the input was accepted by all N outputs; the
\* broadcaster exits only then, with every output closed.
C13_FanOutClosing ==
    kind = "FanOut" =>
        /\ panic = ""
        /\ pc # "panic"
        /\ (pc \in {"closing", "done"} \/ \E j \in 1..N : out[j].closed) =>
              /\ RecvClosed(chs[1])
              /\ recv = <<>>
              /\ \A j \in 1..N : Len(Placed(j)) = sent[1]
              /\ pc \in {"closing", "done"}
        /\ pc = "done" => \A j \in 1..N : out[j].closed

\* in the middle of the closing loop: out[1] closed, out[2] still open
C13_Witness ==
    /\ kind = "FanOut"
    /\ N = 2
    /\ sent[1] >= 1
    /\ pc = "closing"
    /\ out[1].closed
    /\ ~out[2].closed

----------------------------------------------------------------------------
\* The probes and retry loops of chops.go, called on one channel q by
\* MaxCallers goroutines while other goroutines send, receive and close.

\* the zero value of the channel's element type; sent values are 1, 2, ...
Zero == 0

\* the nil interface{} TryRecv returns with Blocked
Nil == -1

sessionVars == <<kind, chs, out, stop, sent, cases, remaining, pc, recv, idx,
                 received, sawClosed, panic>>

Callers == 1..MaxCallers

IdleCall == [op |-> "", pc |-> "idle", x |-> Nil, fruns |-> 0, blocked |-> 0,
             bad |-> FALSE, msg |-> ""]

InitProbe ==
    /\ kind = "Probe"
    /\ chs = <<>>
    /\ sent = <<>>
    /\ out = <<>>
    /\ stop = MakeChan(0)
    /\ cases = <<>>
    /\ remaining = 0
    /\ pc = "none"
    /\ recv = <<>>
    /\ idx = 0
    /\ received = <<>>
    /\ sawClosed = <<>>
    /\ panic = ""
    /\ \E c \in 0..MaxCap : q = MakeChan(c)
    /\ sendq = <<>>
    /\ recvq = 0
    /\ taken = <<>>
    /\ call = [c \in Callers |-> IdleCall]
    /\ hist = <<>>
    /\ closedBy = 0
    /\ nvals = 0

\* the channel with its wait queues, as the runtime's chanrecv/chansend see it
QS == [q |-> q, sendq |-> sendq, recvq |-> recvq, taken |-> taken]

SetQueue(s) ==
    /\ q' = s.q
    /\ sendq' = s.sendq
    /\ recvq' = s.recvq
    /\ taken' = s.taken

\* (reflect.Value).TryRecv: the oldest item if one is buffered or a sender is
\* blocked (the sender's item then moves up); else (zero, false) when closed;
\* else the invalid Value
ChanRecv(s) ==
    IF s.q.buf # <<>>
    THEN [s |-> [s EXCEPT !.q.buf = Tail(@) \o
                              (IF s.sendq # <<>> THEN <<Head(s.sendq)>>
                                                 ELSE <<>>),
                          !.sendq = IF @ # <<>> THEN Tail(@) ELSE @],
          val |-> Head(s.q.buf), ok |-> TRUE, valid |-> TRUE]
    ELSE IF s.sendq # <<>>
    THEN [s |-> [s EXCEPT !.sendq = Tail(@)],
          val |-> Head(s.sendq), ok |-> TRUE, valid |-> TRUE]
    ELSE IF s.q.closed
    THEN [s |-> s, val |-> Zero, ok |-> FALSE, valid |-> TRUE]
    ELSE [s |-> s, val |-> Nil, ok |-> FALSE, valid |-> FALSE]

\* (reflect.Value).TrySend: panics on a closed channel, hands the value to a
\* blocked receiver, else buffers it if there is room, else reports false
ChanSend(s, x) ==
    IF s.q.closed THEN [s |-> s, res |-> "panic"]
    ELSE IF s.recvq > 0
    THEN [s |-> [s EXCEPT !.recvq = @ - 1, !.taken = Append(@, x)],
          res |-> "sent"]
    ELSE IF Len(s.q.buf) < s.q.cap
    THEN [s |-> [s EXCEPT !.q = PushChan(@, x)], res |-> "sent"]
    ELSE [s |-> s, res |-> "full"]

\* (reflect.Value).Close: panics on a closed channel; else sets the flag,
\* wakes the blocked receivers (zero, false) and the blocked senders (who
\* panic in their own goroutines, their values undelivered)
ChanClose(s) ==
    IF s.q.closed THEN [s |-> s, res |-> "panic"]
    ELSE [s |-> [s EXCEPT !.q = CloseChan(@), !.recvq = 0, !.sendq = <<>>],
          res |-> "closed"]

\* calls begun so far
NCalls == Len(hist) + Cardinality({c \in Callers : call[c].pc # "idle"})

\* the goroutines are alike: the idle one of lowest number makes the call
CanCall(c) ==
    /\ kind = "Probe"
    /\ call[c].pc = "idle"
    /\ \A d \in 1..(c - 1) : call[d].pc # "idle"
    /\ NCalls < MaxCalls

Entry(op, ret, val, x, fruns, blocked, bad) ==
    [op |-> op, ret |-> ret, val |-> val, x |-> x, fruns |-> fruns,
     blocked |-> blocked, bad |-> bad]

\* no check of the handle or of the value's type
Contract_Lax(op, isChan, assignable) == ""

\* assertChanValue and the AssignableTo check: the panic message, "" if none
Contract(op, isChan, assignable) ==
    IF ~isChan THEN "not a channel"
    ELSE IF op \in {"TrySend", "SendOr"} /\ ~assignable THEN "cannot send"
    ELSE ""

\* the panic leaves the call: nothing was done to the channel
Raise(c, op, m, bad) ==
    /\ call' = [call EXCEPT ![c] = [IdleCall EXCEPT !.op = op, !.pc = "panic",
                                                    !.msg = m, !.bad = bad]]
    /\ UNCHANGED <<q, sendq, recvq, taken, hist, closedBy, nvals>>

\* the valid-Value branch is tested first
TryRecvResult_ValidFirst(r) ==
    IF r.valid THEN <<r.val, "Closed">>
    ELSE IF r.ok THEN <<r.val, "Ok">>
    ELSE <<Nil, "Blocked">>

\* TryRecv's mapping of (x, ok) to (interface{}, Status)
TryRecvResult(r) ==
    IF r.ok THEN <<r.val, "Ok">>
    ELSE IF r.valid THEN <<r.val, "Closed">>
    ELSE <<Nil, "Blocked">>

TryRecvCall(c, isChan) ==
    /\ CanCall(c)
    /\ LET m == Contract("TryRecv", isChan, TRUE) IN
       IF m # "" THEN Raise(c, "TryRecv", m, ~isChan)
       ELSE LET r == ChanRecv(QS)
                res == TryRecvResult(r) IN
            /\ SetQueue(r.s)
            /\ hist' = Append(hist, Entry("TryRecv", res[2], res[1], Nil,
                                          0, 0, ~isChan))
            /\ UNCHANGED <<call, closedBy, nvals>>
    /\ UNCHANGED sessionVars

\* the recovered panic is reported as a full channel
TrySendResult_Blocked(res) ==
    IF res = "sent" THEN "Ok" ELSE "Blocked"

\* TrySend's Status: the recovered "send on closed channel" becomes Closed
TrySendResult(res) ==
    IF res = "sent" THEN "Ok"
    ELSE IF res = "full" THEN "Blocked"
    ELSE "Closed"

TrySendCall(c, isChan, assignable) ==
    /\ CanCall(c)
    /\ nvals < MaxVals
    /\ LET m == Contract("TrySend", isChan, assignable)
           bad == ~isChan \/ ~assignable
           x == nvals + 1 IN
       IF m # "" THEN Raise(c, "TrySend", m, bad)
       ELSE LET r == ChanSend(QS, x) IN
            /\ SetQueue(r.s)
            /\ hist' = Append(hist, Entry("TrySend", TrySendResult(r.res),
                                          Nil, x, 0, 0, bad))
            /\ nvals' = x
            /\ UNCHANGED <<call, closedBy>>
    /\ UNCHANGED sessionVars

\* the handler's `ok = false` overwrites a result that was true
TryCloseResult_True(res) == "true"

\* TryClose's named result: `ok = true` runs only when v.Close() returned;
\* the handler assigns its own ok, so the result stays false after a recover
TryCloseResult(res) == IF res = "closed" THEN "true" ELSE "false"

TryCloseCall(c, isChan) ==
    /\ CanCall(c)
    /\ LET m == Contract("TryClose", isChan, TRUE) IN
       IF m # "" THEN Raise(c, "TryClose", m, ~isChan)
       ELSE LET r == ChanClose(QS) IN
            /\ SetQueue(r.s)
            /\ hist' = Append(hist, Entry("TryClose", TryCloseResult(r.res),
                                          Nil, Nil, 0, 0, ~isChan))
            /\ closedBy' = IF r.res = "closed" THEN Len(hist) + 1
                                               ELSE closedBy
            /\ UNCHANGED <<call, nvals>>
    /\ UNCHANGED sessionVars

\* f runs whenever the receive did not deliver an item
RunsF_NotOk(r) == ~r.ok

\* RecvOr's loop test `!x.IsValid()`
RunsF(r) == ~r.valid

\* one iteration of RecvOr's loop in the call cur: probe, then f() or return
RecvOrLoop(c, cur) ==
    LET r == ChanRecv(QS)
        b == IF TryRecvResult(r)[2] = "Blocked" THEN 1 ELSE 0 IN
    /\ SetQueue(r.s)
    /\ IF RunsF(r)
       THEN /\ cur.fruns < MaxRuns
            /\ call' = [call EXCEPT ![c] =
                           [cur EXCEPT !.pc = "f", !.fruns = @ + 1,
                                       !.blocked = @ + b]]
            /\ hist' = hist
       ELSE /\ call' = [call EXCEPT ![c] = IdleCall]
            /\ hist' = Append(hist,
                   Entry("RecvOr", IF r.ok THEN "true" ELSE "false", r.val,
                         Nil, cur.fruns, cur.blocked + b, cur.bad))
    /\ UNCHANGED <<closedBy, nvals>>

RecvOrCall(c, isChan) ==
    /\ CanCall(c)
    /\ LET m == Contract("RecvOr", isChan, TRUE) IN
       IF m # "" THEN Raise(c, "RecvOr", m, ~isChan)
       ELSE RecvOrLoop(c, [IdleCall EXCEPT !.op = "RecvOr", !.bad = ~isChan])
    /\ UNCHANGED sessionVars

\* f returned: the loop probes again
RecvOrRetry(c) ==
    /\ kind = "Probe"
    /\ call[c].pc = "f"
    /\ call[c].op = "RecvOr"
    /\ RecvOrLoop(c, call[c])
    /\ UNCHANGED sessionVars

\* the recovered panic leaves the result true
SendOrOutcome_True(res) ==
    IF res = "full" THEN "f" ELSE "true"

\* SendOr's loop: true breaks out, false runs f, and the recovered
\* "send on closed channel" sets ok = false on the way out
SendOrOutcome(res) ==
    IF res = "sent" THEN "true"
    ELSE IF res = "full" THEN "f"
    ELSE "false"

\* one iteration of SendOr's loop in the call cur: attempt, then f() or return
SendOrLoop(c, cur) ==
    LET r == ChanSend(QS, cur.x)
        o == SendOrOutcome(r.res) IN
    /\ SetQueue(r.s)
    /\ IF o = "f"
       THEN /\ cur.fruns < MaxRuns
            /\ call' = [call EXCEPT ![c] =
                           [cur EXCEPT !.pc = "f", !.fruns = @ + 1,
                                       !.blocked = @ + 1]]
            /\ hist' = hist
       ELSE /\ call' = [call EXCEPT ![c] = IdleCall]
            /\ hist' = Append(hist, Entry("SendOr", o, Nil, cur.x, cur.fruns,
                                          cur.blocked, cur.bad))
    /\ UNCHANGED closedBy

SendOrCall(c, isChan, assignable) ==
    /\ CanCall(c)
    /\ nvals < MaxVals
    /\ LET m == Contract("SendOr", isChan, assignable)
           bad == ~isChan \/ ~assignable
           x == nvals + 1 IN
       IF m # "" THEN Raise(c, "SendOr", m, bad)
       ELSE /\ SendOrLoop(c, [IdleCall EXCEPT !.op = "SendOr", !.x = x,
                                              !.bad = bad])
            /\ nvals' = x
    /\ UNCHANGED sessionVars

\* f returned: the loop attempts the send again
SendOrRetry(c) ==
    /\ kind = "Probe"
    /\ call[c].pc = "f"
    /\ call[c].op = "SendOr"
    /\ SendOrLoop(c, call[c])
    /\ UNCHANGED nvals
    /\ UNCHANGED sessionVars

\* another goroutine's `q <- v`: completes, or blocks until received
EnvSend ==
    /\ kind = "Probe"
    /\ ~q.closed
    /\ nvals < MaxVals
    /\ LET x == nvals + 1
           r == ChanSend(QS, x) IN
       /\ IF r.res = "sent" THEN SetQueue(r.s)
          ELSE /\ Len(sendq) < MaxWaiters
               /\ sendq' = Append(sendq, x)
               /\ UNCHANGED <<q, recvq, taken>>
       /\ nvals' = x
    /\ UNCHANGED <<call, hist, closedBy>>
    /\ UNCHANGED sessionVars

\* another goroutine's `<-q`: takes an item, or blocks until one is sent
EnvRecv ==
    /\ kind = "Probe"
    /\ LET r == ChanRecv(QS) IN
       IF r.ok
       THEN SetQueue([r.s EXCEPT !.taken = Append(@, r.val)])
       ELSE /\ ~r.valid
            /\ recvq < MaxWaiters
            /\ recvq' = recvq + 1
            /\ UNCHANGED <<q, sendq, taken>>
    /\ UNCHANGED <<call, hist, closedBy, nvals>>
    /\ UNCHANGED sessionVars

\* another goroutine's close(q)
EnvClose ==
    /\ kind = "Probe"
    /\ ~q.closed
    /\ SetQueue(ChanClose(QS).s)
    /\ closedBy' = -1
    /\ UNCHANGED <<call, hist, nvals>>
    /\ UNCHANGED sessionVars

NextProbe ==
    \/ \E c \in Callers, isChan \in BOOLEAN : TryRecvCall(c, isChan)
    \/ \E c \in Callers, isChan \in BOOLEAN, assignable \in BOOLEAN :
           TrySendCall(c, isChan, assignable)
    \/ \E c \in Callers, isChan \in BOOLEAN : TryCloseCall(c, isChan)
    \/ \E c \in Callers, isChan \in BOOLEAN : RecvOrCall(c, isChan)
    \/ \E c \in Callers : RecvOrRetry(c)
    \/ \E c \in Callers, isChan \in BOOLEAN, assignable \in BOOLEAN :
           SendOrCall(c, isChan, assignable)
    \/ \E c \in Callers : SendOrRetry(c)
    \/ EnvSend
    \/ EnvRecv
    \/ EnvClose

SpecProbe == InitProbe /\ [][NextProbe]_vars

----------------------------------------------------------------------------
\* Properties of the probes and retry loops.

\* the step in which a call of op returns
Returned(op) ==
    /\ Len(hist') = Len(hist) + 1
    /\ hist'[Len(hist')].op = op

\* the items a receive can take, oldest first: the buffer, then the blocked
\* senders' items
AllItems == q.buf \o sendq

RECURSIVE Count(_, _)
Count(s, x) ==
    IF s = <<>> THEN 0
    ELSE (IF Head(s) = x THEN 1 ELSE 0) + Count(Tail(s), x)

\* the items the callers' receives returned
Got == [i \in 1..Len(hist) |->
           IF hist[i].op \in {"TryRecv", "RecvOr"} THEN hist[i].val ELSE Nil]

\* every place a sent value can be
Everywhere == AllItems \o taken \o Got

IsProbe(e) == e.op \in {"TryRecv", "TrySend"}

QueueUnchanged == UNCHANGED <<q, sendq, recvq, taken>>

\* the call of caller c runs f once more in this step
RunsFallback(c, op) ==
    /\ call'[c].op = op
    /\ call'[c].pc = "f"
    /\ call'[c].fruns = call[c].fruns + 1

\* no call with a channel and a value of its element type ends in a panic
NoEscape == \A c \in Callers : call'[c].pc = "panic" => call'[c].bad

\* C14: once a probe (TryRecv or TrySend) on the channel returned Closed,
\* every later probe on the channel returns Closed too.
C14_ClosedMonotonic ==
    kind = "Probe" =>
        \A i, j \in 1..Len(hist) :
            (i < j /\ IsProbe(hist[i]) /\ IsProbe(hist[j])
                   /\ hist[i].ret = "Closed")
                => hist[j].ret = "Closed"

\* C15: TryRecv returns (head, Ok), taking exactly the head, iff an item is
\* available, closed channel included; (zero, Closed) iff closed and empty;
\* (nil, Blocked) iff open and empty; Closed and Blocked change nothing.
C15_TryRecv ==
    [][Returned("TryRecv") =>
          LET e == hist'[Len(hist')] IN
          /\ e.ret = "Ok" <=> AllItems # <<>>
          /\ e.ret = "Closed" <=> (q.closed /\ AllItems = <<>>)
          /\ e.ret = "Blocked" <=> (~q.closed /\ AllItems = <<>>)
          /\ e.ret = "Ok" =>
                /\ e.val = Head(AllItems)
                /\ AllItems' = Tail(AllItems)
                /\ q'.closed = q.closed
                /\ UNCHANGED <<recvq, taken>>
          /\ e.ret = "Closed" => e.val = Zero /\ QueueUnchanged
          /\ e.ret = "Blocked" => e.val = Nil /\ QueueUnchanged
          /\ NoEscape]_vars

C15_Witness ==
    /\ kind = "Probe"
    /\ Len(hist) = 2
    /\ hist[1].op = "TryClose" /\ hist[1].ret = "true"
    /\ hist[2].op = "TryRecv" /\ hist[2].ret = "Ok" /\ hist[2].val = 1
    /\ q.closed
    /\ q.buf = <<>>

\* C16: TrySend returns Ok, adding exactly one copy of the value, iff the
\* channel is open with room or a waiting receiver; Closed iff it is closed,
\* whatever it holds; Blocked iff open and full with no receiver; Closed and
\* Blocked change nothing and no panic escapes.
C16_TrySend ==
    [][Returned("TrySend") =>
          LET e == hist'[Len(hist')]
              room == Len(q.buf) < q.cap \/ recvq > 0 IN
          /\ e.ret = "Ok" <=> (~q.closed /\ room)
          /\ e.ret = "Closed" <=> q.closed
          /\ e.ret = "Blocked" <=> (~q.closed /\ ~room)
          /\ e.ret = "Ok" =>
                /\ Count(Everywhere, e.x) = 0
                /\ Count(Everywhere', e.x) = 1
                /\ IF recvq > 0
                   THEN taken' = Append(taken, e.x) /\ q' = q
                   ELSE q' = PushChan(q, e.x) /\ taken' = taken
                /\ sendq' = sendq
          /\ e.ret # "Ok" => QueueUnchanged /\ Count(Everywhere', e.x) = 0
          /\ NoEscape]_vars

C16_Witness ==
    /\ kind = "Probe"
    /\ q.closed
    /\ q.buf = <<1>>
    /\ Len(hist) = 2
    /\ hist[1].op = "TrySend" /\ hist[1].ret = "Ok"
    /\ hist[2].op = "TrySend" /\ hist[2].ret = "Closed"

TrueCloses == {i \in 1..Len(hist) :
                  hist[i].op = "TryClose" /\ hist[i].ret = "true"}

\* C17: a TryClose call returns true iff it closed the open channel and false
\* iff the channel was already closed; of all the calls, from one goroutine
\* or several, at most one returns true, exactly one when nobody else closed
\* the channel; none panics and the channel is closed after each.
C17_TryClose ==
    [][/\ Returned("TryClose") =>
             LET e == hist'[Len(hist')] IN
             /\ e.ret = "true" <=> ~q.closed
             /\ e.ret = "false" <=> q.closed
             /\ q'.closed
             /\ q'.buf = q.buf /\ taken' = taken
       /\ Cardinality(TrueCloses') <= 1
       /\ TrueCloses' = (IF closedBy' > 0 THEN {closedBy'} ELSE {})
       /\ (closedBy' # -1 /\ \E i \in 1..Len(hist') : hist'[i].op = "TryClose")
             => Cardinality(TrueCloses') = 1
       /\ NoEscape]_vars

C17_Witness ==
    /\ kind = "Probe"
    /\ Len(hist) = 2
    /\ hist[1].op = "TryClose" /\ hist[1].ret = "true"
    /\ hist[2].op = "TryClose" /\ hist[2].ret = "false"
    /\ closedBy = 1

\* C18: RecvOr runs f exactly once after each probe that found the channel
\* open and empty and at no other time; it returns (item, true) at the first
\* probe that finds an item, taking that item only, or (zero, false) at the
\* first probe that finds the channel closed and empty.
C18_RecvOr ==
    [][/\ Returned("RecvOr") =>
             LET e == hist'[Len(hist')] IN
             /\ e.ret = "true" <=> AllItems # <<>>
             /\ e.ret = "false" <=> (q.closed /\ AllItems = <<>>)
             /\ e.ret = "true" =>
                   /\ e.val = Head(AllItems)
                   /\ AllItems' = Tail(AllItems)
                   /\ q'.closed = q.closed
                   /\ UNCHANGED <<recvq, taken>>
             /\ e.ret = "false" => e.val = Zero /\ QueueUnchanged
             /\ e.fruns = e.blocked
       /\ \A c \in Callers :
             /\ RunsFallback(c, "RecvOr") =>
                   /\ ~q.closed
                   /\ AllItems = <<>>
                   /\ QueueUnchanged
                   /\ hist' = hist
             /\ call'[c].op = "RecvOr" => call'[c].fruns = call'[c].blocked
             /\ (call[c].op = "RecvOr" /\ call[c].pc = "f"
                     /\ call'[c] # call[c]
                     /\ (q.closed \/ AllItems # <<>>))
                   => call'[c].pc = "idle" /\ Returned("RecvOr")
       /\ NoEscape]_vars

C18_Witness ==
    /\ kind = "Probe"
    /\ \E i, j \in 1..Len(hist) :
          /\ hist[i].op = "RecvOr" /\ hist[i].ret = "true"
          /\ hist[i].fruns = MaxRuns
          /\ hist[j].op = "RecvOr" /\ hist[j].ret = "false"
          /\ hist[j].fruns >= 1

\* C19: SendOr returns true iff the call added x to the channel exactly once,
\* and false iff an attempt found the channel closed; then nothing is added,
\* no panic escapes and f does not run again, whether the channel was closed
\* before the first attempt or while f was running.
C19_SendOr ==
    [][/\ Returned("SendOr") =>
             LET e == hist'[Len(hist')] IN
             /\ e.ret = "true" <=> ~q.closed
             /\ e.ret = "false" <=> q.closed
             /\ Count(Everywhere, e.x) = 0
             /\ e.ret = "true" =>
                   /\ Count(Everywhere', e.x) = 1
                   /\ IF recvq > 0
                      THEN taken' = Append(taken, e.x) /\ q' = q
                      ELSE q' = PushChan(q, e.x) /\ taken' = taken
                   /\ sendq' = sendq
             /\ e.ret = "false" => QueueUnchanged
       /\ \A i \in 1..Len(hist') :
             hist'[i].op = "SendOr" =>
                Count(Everywhere', hist'[i].x) =
                    (IF hist'[i].ret = "true" THEN 1 ELSE 0)
       /\ \A c \in Callers :
             /\ RunsFallback(c, "SendOr") =>
                   /\ ~q.closed
                   /\ QueueUnchanged
                   /\ hist' = hist
             /\ (call'[c].op = "SendOr" /\ call'[c].pc = "f")
                   => Count(Everywhere', call'[c].x) = 0
             /\ (call[c].op = "SendOr" /\ call[c].pc = "f"
                     /\ call'[c] # call[c] /\ q.closed)
                   => /\ call'[c].pc = "idle"
                      /\ Returned("SendOr")
                      /\ hist'[Len(hist')].ret = "false"
       /\ NoEscape]_vars

C19_Witness ==
    /\ kind = "Probe"
    /\ \E i, j \in 1..Len(hist) :
          /\ hist[i].op = "SendOr" /\ hist[i].ret = "true"
          /\ hist[i].fruns >= 1
          /\ hist[j].op = "SendOr" /\ hist[j].ret = "false"
          /\ hist[j].fruns >= 1

----------------------------------------------------------------------------
\* MakeFanIn: the wake of the select, the items taken, the wait set.

\* a wake of reflect.Select in the K >= 2 goroutine of part_001
Wake ==
    /\ kind = "FanIn"
    /\ pc = "select"
    /\ pc' # pc \/ cases' # cases

\* C21: FanIn, K >= 2: a wake of the select at which stop is already closed
\* ends the goroutine with the output closed and no item taken or forwarded,
\* whatever the inputs hold.
C21_WakeRule ==
    [][(Wake /\ stop.closed) =>
          /\ pc' = "done"
          /\ out'[1] = CloseChan(out[1])
          /\ recv' = <<>>
          /\ UNCHANGED <<chs, sent>>]_vars

\* the number of items taken from input i so far
Removed(i) == sent[i] - Len(chs[i].buf)

\* the goroutine holds an item of input i it has yet to send
Holding(i) == IF recv # <<>> /\ recv[1] = i THEN 1 ELSE 0

\* C22: FanIn drops no taken item: every item taken from an input is on the
\* output (buffered or received) or still in the goroutine's hand, and the
\* hand is empty once the goroutine has exited or the output is closed, so
\* then the items of the output are exactly the items taken.
C22_NoDrop ==
    kind \in FanInKinds =>
        /\ \A i \in 1..K :
              /\ Removed(i) = Len(OfInput(Placed(1), i)) + Holding(i)
              /\ \A n \in 1..Len(OfInput(Placed(1), i)) :
                    OfInput(Placed(1), i)[n] = <<i, n>>
        /\ (pc = "done" \/ out[1].closed) =>
              /\ recv = <<>>
              /\ Len(Placed(1)) = SumSeq([i \in 1..K |-> Removed(i)])

\* cancelled with an item in hand: the item was still forwarded, an untaken
\* item stays on its input
C22_Witness ==
    /\ kind = "FanIn"
    /\ K = 2
    /\ stop.closed
    /\ pc = "done"
    /\ out[1].closed
    /\ Len(Placed(1)) >= 2
    /\ \E i \in 1..K : chs[i].buf # <<>>

\* the input slots of the wait set still active
Active == {i \in 1..K : cases[i]}

\* C23: FanIn, K >= 2: the wait set keeps its size; a slot is deactivated in
\* place, only when its input reported closed, and stays so; the counter is
\* the number of active input slots and at least 1; the goroutine exits
\* exactly at a wake that finds stop closed or the last active input closed.
C23_WaitSet ==
    [][(kind \in FanInKinds /\ K >= 2) =>
          /\ Len(cases) = (IF kind = "FanIn" THEN K + 1 ELSE K)
          /\ Len(cases') = Len(cases)
          /\ kind = "FanIn" => cases[K + 1]
          /\ \A i \in 1..K :
                /\ ~cases[i] => ~cases'[i] /\ RecvClosed(chs[i])
                /\ (cases[i] /\ ~cases'[i]) => RecvClosed(chs[i])
                /\ (recv' # recv /\ recv' # <<>> /\ recv'[1] = i) => cases[i]
          /\ remaining = Cardinality(Active)
          /\ remaining >= 1
          /\ (pc # "done" /\ pc' = "done") =>
                \/ stop.closed
                \/ remaining = 1 /\ \E i \in Active : RecvClosed(chs[i])
          /\ (Wake /\ recv' = <<>> /\ remaining = 1) => pc' = "done"
          /\ (Wake /\ pc' = "select") =>
                /\ remaining > 1
                /\ remaining' = remaining - 1
                /\ \E i \in Active : cases' = [cases EXCEPT ![i] = FALSE]]_vars

\* one input was deactivated, the other then ended the session
C23_Witness ==
    /\ kind = "FanIn"
    /\ K = 2
    /\ ~stop.closed
    /\ remaining = 1
    /\ Cardinality(Active) = 1
    /\ pc = "done"

\* C24: FanIn with one input: from every state reachable by either path, a
\* step is a step of the general path's select exactly when it is a step of
\* the fast path's select, the general path never touches its wait set and
\* counter, and the send is the same code; so both paths allow the same
\* items on the output, the same single close and the same exit, under every
\* interleaving of sends, input close, receives and stop close.
C24_FastPath ==
    [][/\ FanInSelect <=> FastSelect
       /\ cases = <<TRUE, TRUE>>
       /\ remaining = 1
       /\ panic' = ""
       /\ out[1].closed => (pc = "done" /\ pc' = "done" /\ out'[1].closed)]_vars

\* stop and the input both closed, an item delivered, the goroutine gone
C24_Witness ==
    /\ kind = "FanInGeneral"
    /\ stop.closed
    /\ chs[1].closed
    /\ pc = "done"
    /\ out[1].closed
    /\ Len(received[1]) >= 1

----------------------------------------------------------------------------
\* MakeFanOut: termination.

\* the broadcasting goroutine is scheduled and every output's consumer keeps
\* receiving; the producer is free to send, to close, or to do neither
FairSpecFanOut ==
    /\ SpecFanOut
    /\ WF_vars(FanOutTask)
    /\ \A j \in 1..MaxN : WF_vars(j <= Len(out) /\ Recv(j))

\* every output is closed and the goroutine has exited
FanOutDone == pc = "done" /\ \A j \in 1..N : out[j].closed

\* some output is closed or the goroutine has exited
FanOutEnding == pc = "done" \/ \E j \in 1..N : out[j].closed

\* the buffer of output j is at capacity
Full(j) == out[j].cap >= 1 /\ Len(out[j].buf) = out[j].cap

\* the goroutine stands at a send to an output that cannot take the item,
\* and the consumer of that output does not receive in this step
Stalled ==
    /\ pc \in {"bsend1", "bsend"}
    /\ ~SendRoom(out[Target])
    /\ received'[Target] = received[Target]

\* C25 as stated: once the input is closed all outputs get closed and the
\* goroutine exits; while the input is open, and in every step at which some
\* output is full and its consumer does not receive, the goroutine does not
\* exit and closes no output.
C25_AsStated ==
    /\ (kind = "FanOut" /\ N >= 1 /\ chs[1].closed) ~> FanOutDone
    /\ []((kind = "FanOut" /\ N >= 1 /\ ~chs[1].closed) => ~FanOutEnding)
    /\ [][(kind = "FanOut" /\ \E j \in 1..N :
                                 Full(j) /\ received'[j] = received[j])
             => /\ pc' = "done" => pc = "done"
                /\ \A j \in 1..N : out'[j].closed => out[j].closed]_vars

\* C25: FanOut, N >= 1: once the input is closed, all outputs get closed and
\* the goroutine exits, the consumers receiving; while the input is open no
\* output is closed and the goroutine has not exited; and while the
\* goroutine is blocked sending to an output that has no room and whose
\* consumer does not receive, it stays there and no output is closed.
C25_FanOutTermination ==
    /\ (kind = "FanOut" /\ N >= 1 /\ chs[1].closed) ~> FanOutDone
    /\ []((kind = "FanOut" /\ N >= 1 /\ ~chs[1].closed) => ~FanOutEnding)
    /\ [][(kind = "FanOut" /\ Stalled)
             => /\ pc' = pc
                /\ idx' = idx
                /\ recv' = recv
                /\ out'[Target] = out[Target]
                /\ ~FanOutEnding']_vars

\* two outputs, both closed and seen closed after two items went through
C25_Witness ==
    /\ kind = "FanOut"
    /\ N = 2
    /\ sent[1] >= 2
    /\ FanOutDone
    /\ \A j \in 1..N : sawClosed[j] /\ Len(received[j]) = sent[1]

====
